---- MODULE Spec2Model ----
(***************************************************************************)
(* A model of gantt_chart: GanttChartTool::run (src/src/lib.rs) and main   *)
(* (src/src/bin/gantt_chart.rs).                                           *)
(*                                                                         *)
(* Representation.                                                         *)
(*   Option<T>   a sequence of length 0 (None) or 1 (Some(x)).             *)
(*   NaiveDate   a record [y, m, d] of the proleptic Gregorian calendar.   *)
(*   f32 lengths integers in units of 1/31 of an SVG unit: every length    *)
(*               the layout computes is a multiple of max_month_width/31,  *)
(*               so the arithmetic below is exact (f32 rounding is not     *)
(*               modelled).  A division by a zero day count is NaN.        *)
(*   hue         an integer in 0 .. HueUnit-1 standing for hue/HueUnit.    *)
(***************************************************************************)
EXTENDS Integers, Sequences, FiniteSets, TLC

\* ------------------------------------------------------------- options
None == <<>>
Some(x) == <<x>>
IsSome(o) == o # <<>>
Unwrap(o) == o[1]

\* ------------------------------------------------------------- bounds
\* The longest item list an input document carries.
MaxItems == 2

\* ------------------------------------------------- program constants
\* lib.rs:34, 38: the command line's defaults (in SVG units).
DefaultTitleWidth == 210
DefaultMaxMonthWidth == 80
\* lib.rs:287: a month's width is max_month_width * days / 31.0.
WidthDivisor == 31
\* The fixed-point unit of a hue: rng.gen::<f32>() lies in [0, 1).
HueUnit == 100
\* lib.rs:17: GOLDEN_RATIO_CONJUGATE = 0.618033988749895, in 1/HueUnit.
GOLDEN_RATIO_CONJUGATE == 62
\* lib.rs:307-312, 313-318, 320: the gutters and the row height.
GutterLeft == 10
GutterTop == 80
GutterRight == 10
GutterBottom == 10
RowGutterHeight == 10
ResourceGutterHeight == 20
BaseRowHeight == 20

MONTH_NAMES ==
  <<"Jan", "Feb", "Mar", "Apr", "May", "Jun",
    "Jul", "Aug", "Sep", "Oct", "Nov", "Dec">>

\* ------------------------------------------------------------ calendar
\* chrono's NaiveDate, as far as lib.rs uses it.
FromYmd(year, month, day) == [y |-> year, m |-> month, d |-> day]

NaiveDateMAX == FromYmd(262143, 12, 31)
NaiveDateMIN == FromYmd(-262144, 1, 1)

IsLeapYear(year) ==
  (year % 4 = 0 /\ year % 100 # 0) \/ year % 400 = 0

MonthLen(year, month) ==
  IF month = 2 THEN (IF IsLeapYear(year) THEN 29 ELSE 28)
  ELSE IF month \in {4, 6, 9, 11} THEN 30 ELSE 31

\* a < b, a <= b on NaiveDate (derived Ord: year, then month, then day).
DateLt(a, b) ==
  \/ a.y < b.y
  \/ a.y = b.y /\ a.m < b.m
  \/ a.y = b.y /\ a.m = b.m /\ a.d < b.d

DateLe(a, b) == a = b \/ DateLt(a, b)

\* NaiveDate::pred: the previous calendar day.
Pred(date) ==
  IF date.d > 1 THEN FromYmd(date.y, date.m, date.d - 1)
  ELSE IF date.m > 1
       THEN FromYmd(date.y, date.m - 1, MonthLen(date.y, date.m - 1))
       ELSE FromYmd(date.y - 1, 12, 31)

\* The day number of a date, counted from Epoch (day 0).
Epoch == FromYmd(2023, 1, 1)

RECURSIVE DaysBeforeYear(_)
DaysBeforeYear(year) ==
  IF year <= Epoch.y THEN 0
  ELSE DaysBeforeYear(year - 1)
       + (IF IsLeapYear(year - 1) THEN 366 ELSE 365)

RECURSIVE DaysBeforeMonth(_, _)
DaysBeforeMonth(year, month) ==
  IF month = 1 THEN 0
  ELSE DaysBeforeMonth(year, month - 1) + MonthLen(year, month - 1)

DayNumber(date) ==
  DaysBeforeYear(date.y) + DaysBeforeMonth(date.y, date.m) + date.d - 1

RECURSIVE DateFrom(_, _, _)
DateFrom(year, month, n) ==
  IF n < MonthLen(year, month) THEN FromYmd(year, month, n + 1)
  ELSE IF month = 12
       THEN DateFrom(year + 1, 1, n - MonthLen(year, month))
       ELSE DateFrom(year, month + 1, n - MonthLen(year, month))

\* date + Duration::days(n), for dates on or after Epoch.
AddDays(date, n) == DateFrom(Epoch.y, 1, DayNumber(date) + n)

\* (a - b).num_days()
NumDays(a, b) == DayNumber(a) - DayNumber(b)

\* ------------------------------------------------- process_chart_data
\* lib.rs:218-229: the day before the first day of the next month.
NumDaysInMonth(year, month) ==
  LET next == IF month = 12 THEN <<year + 1, 1>> ELSE <<year, month + 1>>
  IN  Pred(FromYmd(next[1], next[2], 1)).d

ErrFirstStart == "First item must contain a start date"
ErrFirstResource == "First item must contain a resource index"
ErrResourceRange == "Resource index is out of range"

\* lib.rs:239-258: the date half of one iteration of the date-range loop,
\* for the item at index i (of enumerate(), from 0).  st is the loop's
\* [start_date, end_date, date, err]; err is the error the iteration
\* returned with, "" when it did not return.
DateStepLastStartWins(i, item, st) ==
  LET got == IsSome(item.start_date)
      d1 == IF got THEN Unwrap(item.start_date) ELSE st.date
      s1 == IF got THEN d1 ELSE st.start_date
  IN  IF ~got /\ i = 0
      THEN [st EXCEPT !.err = ErrFirstStart]
      ELSE
        LET d2 == IF IsSome(item.duration)
                  THEN AddDays(d1, Unwrap(item.duration)) ELSE d1
            e2 == IF DateLt(st.end_date, d2) THEN d2 ELSE st.end_date
        IN  [start_date |-> s1, end_date |-> e2, date |-> d2, err |-> ""]

DateStep(i, item, st) ==
  LET got == IsSome(item.start_date)
      d1 == IF got THEN Unwrap(item.start_date) ELSE st.date
      s1 == IF got /\ DateLt(Unwrap(item.start_date), st.start_date)
            THEN d1 ELSE st.start_date
  IN  IF ~got /\ i = 0
      THEN [st EXCEPT !.err = ErrFirstStart]
      ELSE
        LET d2 == IF IsSome(item.duration)
                  THEN AddDays(d1, Unwrap(item.duration)) ELSE d1
            e2 == IF DateLt(st.end_date, d2) THEN d2 ELSE st.end_date
        IN  [start_date |-> s1, end_date |-> e2, date |-> d2, err |-> ""]

\* lib.rs:260-268: the resource half of the iteration: its error, or "".
ResourceCheckFirstItemOnly(i, item, nres) ==
  IF i # 0 THEN ""
  ELSE IF IsSome(item.resource_index)
       THEN IF Unwrap(item.resource_index) >= nres
            THEN ErrResourceRange ELSE ""
       ELSE ErrFirstResource

ResourceCheck(i, item, nres) ==
  IF IsSome(item.resource_index)
  THEN IF Unwrap(item.resource_index) >= nres
       THEN ErrResourceRange ELSE ""
  ELSE IF i = 0 THEN ErrFirstResource ELSE ""

\* lib.rs:238-269: one iteration of the date-range loop.
FirstPassItem(i, item, st, nres) ==
  LET dated == DateStep(i, item, st)
  IN  IF dated.err # "" THEN dated
      ELSE [dated EXCEPT !.err = ResourceCheck(i, item, nres)]

\* lib.rs:271-276: the interval snapped to whole months.
SnapStart(start) == FromYmd(start.y, start.m, 1)
SnapEnd(end) == FromYmd(end.y, end.m, NumDaysInMonth(end.y, end.m))

\* lib.rs:286-295: the column of the month of date; its width in 1/31.
ColumnOf(date, max_month_width) ==
  LET item_days == NumDaysInMonth(date.y, date.m)
  IN  [width |-> max_month_width * item_days,
       days |-> item_days,
       month_name |-> MONTH_NAMES[date.m]]

\* lib.rs:297-301: the first day of the next month.
NextMonthSameYear(date) == FromYmd(date.y, (date.m % 12) + 1, 1)

NextMonth(date) ==
  FromYmd(date.y + (IF date.m = 12 THEN 1 ELSE 0), (date.m % 12) + 1, 1)

\* An f32 that is not a number (x / 0.0 * 0.0).
NaN == "NaN"

\* lib.rs:336-339, 365-368: the x offset of date, in 1/31:
\* title_width + gutter.left + days / num_item_days * all_items_width.
OffsetOf(date, start, num_item_days, all_items_width, title_width) ==
  IF num_item_days = 0 THEN NaN
  ELSE WidthDivisor * (title_width + GutterLeft)
       + (NumDays(date, start) * all_items_width) \div num_item_days

\* lib.rs:346: item_days / num_item_days * all_items_width, in 1/31.
RowLengthTruncated(item_days, num_item_days, all_items_width) ==
  IF num_item_days = 0 THEN NaN
  ELSE (item_days \div num_item_days) * all_items_width

RowLength(item_days, num_item_days, all_items_width) ==
  IF num_item_days = 0 THEN NaN
  ELSE (item_days * all_items_width) \div num_item_days

\* lib.rs:332-334: the date at which the row loop places an item: its own
\* start date, or the date carried in the loop's cursor.
RowDate(item, cursor) ==
  IF IsSome(item.start_date) THEN Unwrap(item.start_date) ELSE cursor

\* lib.rs:343-345: the cursor the row loop carries on from an item placed
\* at the date at.
NextRowDateNotAdvanced(item, at) == at

NextRowDate(item, at) ==
  IF IsSome(item.duration) THEN AddDays(at, Unwrap(item.duration)) ELSE at

\* lib.rs:341-347: the Option<f32> length of an item's row.
LengthOfPositiveOnly(item, num_item_days, all_items_width) ==
  IF IsSome(item.duration) /\ Unwrap(item.duration) > 0
  THEN Some(RowLength(Unwrap(item.duration), num_item_days, all_items_width))
  ELSE None

LengthOf(item, num_item_days, all_items_width) ==
  IF IsSome(item.duration)
  THEN Some(RowLength(Unwrap(item.duration), num_item_days, all_items_width))
  ELSE None

\* lib.rs:349-351: the resource index the row loop carries.
RowResource(item, carried) ==
  IF IsSome(item.resource_index) THEN Unwrap(item.resource_index) ELSE carried

\* lib.rs:353-359: the row of an item.
RowOfOpenByDefault(item, resource_index, offset, length) ==
  [title |-> item.title,
   resource_index |-> resource_index,
   offset |-> offset,
   length |-> length,
   open |-> IF IsSome(item.open) THEN Unwrap(item.open) ELSE TRUE]

RowOf(item, resource_index, offset, length) ==
  [title |-> item.title,
   resource_index |-> resource_index,
   offset |-> offset,
   length |-> length,
   open |-> IF IsSome(item.open) THEN Unwrap(item.open) ELSE FALSE]

\* lib.rs:186-210: hsv_to_rgb, with h, s, v in 1/HueUnit; a channel is
\* floor(x * 256.0).
HsvToRgb(h, s, v) ==
  LET U == HueUnit
      h_i == (h * 6) \div U
      f == h * 6 - h_i * U
      cv == (256 * v) \div U
      cp == (256 * v * (U - s)) \div (U * U)
      cq == (256 * v * (U * U - f * s)) \div (U * U * U)
      ct == (256 * v * (U * U - (U - f) * s)) \div (U * U * U)
      rgb(r, g, b) == r * 65536 + g * 256 + b
  IN  IF h_i = 0 THEN rgb(cv, ct, cp)
      ELSE IF h_i = 1 THEN rgb(cq, cv, cp)
      ELSE IF h_i = 2 THEN rgb(cp, cv, ct)
      ELSE IF h_i = 3 THEN rgb(cp, cq, cv)
      ELSE IF h_i = 4 THEN rgb(ct, cp, cv)
      ELSE rgb(cv, cp, cq)

\* lib.rs:390-403: the colours of resources i .. n-1, from hue h on.
RECURSIVE ResourceColors(_, _, _)
ResourceColors(h, i, n) ==
  IF i >= n THEN <<>>
  ELSE <<[resource |-> i, rgb |-> HsvToRgb(h, HueUnit \div 2, HueUnit \div 2)]>>
       \o ResourceColors((h + GOLDEN_RATIO_CONJUGATE) % HueUnit, i + 1, n)

\* -------------------------------------------------------- render_chart
RECURSIVE SumWidths(_, _)
SumWidths(columns, n) ==
  IF n = 0 THEN 0 ELSE SumWidths(columns, n - 1) + columns[n].width

\* lib.rs:423-653: the SVG document, as the values its elements carry
\* (x coordinates and widths in 1/31, y coordinates in SVG units).
Render(add_resource_table, rd) ==
  LET row_height == RowGutterHeight + BaseRowHeight
      left == WidthDivisor * (GutterLeft + rd.title_width)
      n == (row_height - RowGutterHeight) \div 2
  IN  [width |-> left + SumWidths(rd.cols, Len(rd.cols))
                 + WidthDivisor * GutterRight,
       height |-> GutterTop + Len(rd.rows) * row_height
                  + (IF add_resource_table
                     THEN ResourceGutterHeight + row_height ELSE 0)
                  + GutterBottom,
       style |-> rd.styles,
       column_lines |-> [k \in 1..(Len(rd.cols) + 1) |->
                           left + SumWidths(rd.cols, k - 1)],
       headings |-> [k \in 1..Len(rd.cols) |-> rd.cols[k].month_name],
       row_items |-> [k \in 1..Len(rd.rows) |->
          IF IsSome(rd.rows[k].length)
          THEN [elem |-> "rect",
                text |-> rd.rows[k].title,
                resource |-> rd.rows[k].resource_index,
                open |-> rd.rows[k].open,
                x |-> rd.rows[k].offset,
                width |-> Unwrap(rd.rows[k].length)]
          ELSE [elem |-> "path",
                text |-> rd.rows[k].title,
                x |-> rd.rows[k].offset - WidthDivisor * n]],
       marker |-> rd.marked_date_offset,
       title |-> rd.title,
       resources |-> IF add_resource_table THEN rd.resources ELSE <<>>]

\* ------------------------------------------------------------- inputs
D1 == FromYmd(2023, 12, 22)
D2 == FromYmd(2024, 1, 25)
StartDates == {D1, D2}
Durations == {0, 10}
MarkedDates == {FromYmd(2024, 2, 1)}
Resources == <<"Ann", "Bob">>
\* The initial hues thread_rng() may give, in 1/HueUnit.
Hues == {10, 70}
Opt(S) == {None} \cup {Some(x) : x \in S}

\* What an item says besides its dates: <<resource, title, open>>.  The
\* resource index Len(Resources) is out of range.
Attributes ==
  {<<None, "A", None>>,
   <<Some(0), "B", Some(TRUE)>>,
   <<Some(1), "C", Some(FALSE)>>,
   <<Some(Len(Resources)), "D", None>>}

\* lib.rs:72-81: ItemData.
Items ==
  {[title |-> a[2], duration |-> du, start_date |-> sd,
    resource_index |-> a[1], open |-> a[3]] :
     a \in Attributes, du \in Opt(Durations), sd \in Opt(StartDates)}

\* lib.rs:83-90: ChartData.
Charts ==
  {[title |-> "P", marked_date |-> md, resources |-> Resources, items |-> its] :
     md \in Opt(MarkedDates),
     its \in UNION {[1..n -> Items] : n \in 0..MaxItems}}

\* lib.rs:22-44: the command line's options at their defaults.
DefaultCli ==
  [title_width |-> DefaultTitleWidth,
   max_month_width |-> DefaultMaxMonthWidth,
   add_resource_table |-> FALSE]

\* -------------------------------------------------------------- state
VARIABLES
  doc,                \* Option: the chart the input document describes,
                      \* known once it has been read
  run_no,             \* 1, or 2 for a second run on the same document
  first_written,      \* what the first run wrote
  pc,                 \* where the run is
  cli,                \* run: the parsed command line
  chart_data,         \* run: Option<ChartData>
  result,             \* run's return value: "", "Ok" or "Err"
  error,              \* the error of an Err
  start_date, end_date, date, i,
  cols, num_item_days, all_items_width,
  resource_index, rows, marked_date_offset, styles,
  output,             \* render_chart's String
  sink_open,          \* get_output() has returned a writer
  written,            \* what the writer received
  stdout, stderr,     \* the lines the logger printed
  exit_code           \* the process's exit status, -1 while it runs

io == <<sink_open, written, stdout, stderr, exit_code>>
locals == <<start_date, end_date, date, i, cols, num_item_days,
            all_items_width, resource_index, rows, marked_date_offset,
            styles>>
input == <<doc, run_no, first_written>>
vars == <<input, pc, cli, chart_data, result, error, locals, output, io>>

\* The locals of process_chart_data before its first statement runs.
FreshLocals ==
  /\ start_date = NaiveDateMAX
  /\ end_date = NaiveDateMIN
  /\ date = NaiveDateMIN
  /\ i = 0
  /\ cols = <<>>
  /\ num_item_days = 0
  /\ all_items_width = 0
  /\ resource_index = 0
  /\ rows = <<>>
  /\ marked_date_offset = None
  /\ styles = <<>>

Init ==
  /\ doc = None
  /\ run_no = 1
  /\ first_written = None
  /\ pc = "parse_args"
  /\ cli = DefaultCli
  /\ chart_data = None
  /\ result = ""
  /\ error = ""
  /\ FreshLocals
  /\ output = None
  /\ sink_open = FALSE
  /\ written = None
  /\ stdout = <<>>
  /\ stderr = <<>>
  /\ exit_code = -1

\* ---------------------------------------------------------------- run
\* lib.rs:161-166: the calls run makes after parsing the command line,
\* in order; each returns from run with its error (the ? operator).
RunStepsOutputFirst == <<"read", "get_output", "layout", "render", "write">>

RunSteps == <<"read", "layout", "render", "get_output", "write">>

\* The pc at which a step of run begins.
Enter(step) == IF step = "layout" THEN "pass1" ELSE step

\* The pc after a step of run has succeeded.
After(step) ==
  LET k == CHOOSE n \in 1..Len(RunSteps) : RunSteps[n] = step
  IN  IF k = Len(RunSteps) THEN "return_ok" ELSE Enter(RunSteps[k + 1])

\* A step returns Err(msg) from run.
Fail(msg) ==
  /\ pc' = "main"
  /\ result' = "Err"
  /\ error' = msg

\* The pc moves on; run has not returned.
Goto(next) ==
  /\ pc' = next
  /\ UNCHANGED <<result, error>>

\* lib.rs:153-159: Cli::try_parse_from.  A command line clap rejects is
\* printed with output! (GanttChartLog::output) and run returns Ok(()).
ParseArgs ==
  /\ pc = "parse_args"
  /\ \/ /\ cli' = DefaultCli
        /\ Goto(Enter(RunSteps[1]))
        /\ UNCHANGED stdout
     \/ /\ stdout' = Append(stdout, "clap: error")
        /\ pc' = "main"
        /\ result' = "Ok"
        /\ UNCHANGED <<cli, error>>
  /\ UNCHANGED <<input, chart_data, locals, output, sink_open, written,
                 stderr, exit_code>>

\* lib.rs:161, 54-59, 170-178: get_input and read_chart_file.  The document
\* is any chart of Charts; a second run reads the document of the first.
ReadChartFile ==
  /\ pc = "read"
  /\ \/ /\ \E d \in (IF IsSome(doc) THEN {Unwrap(doc)} ELSE Charts) :
             /\ doc' = Some(d)
             /\ chart_data' = Some(d)
        /\ Goto(After("read"))
     \/ /\ \E e \in {"cannot open the input", "cannot read the input",
                     "malformed input"} : Fail(e)
        /\ UNCHANGED <<doc, chart_data>>
  /\ UNCHANGED <<run_no, first_written, cli, locals, output, io>>

ItemsOf == Unwrap(chart_data).items

\* lib.rs:238-269: one iteration of the date-range loop.  An iteration
\* that returns an error leaves process_chart_data, whose locals are dropped.
FirstPass ==
  /\ pc = "pass1"
  /\ i < Len(ItemsOf)
  /\ LET st == [start_date |-> start_date, end_date |-> end_date,
                date |-> date, err |-> ""]
         r == FirstPassItem(i, ItemsOf[i + 1], st,
                            Len(Unwrap(chart_data).resources))
     IN  IF r.err # ""
         THEN /\ Fail(r.err)
              /\ UNCHANGED <<start_date, end_date, date, i>>
         ELSE /\ start_date' = r.start_date
              /\ end_date' = r.end_date
              /\ date' = r.date
              /\ i' = i + 1
              /\ Goto("pass1")
  /\ UNCHANGED <<input, cli, chart_data, cols, num_item_days,
                 all_items_width, resource_index, rows, marked_date_offset,
                 styles, output, io>>

\* lib.rs:271-283: the loop is over; snap the interval to whole months.
Snap ==
  /\ pc = "pass1"
  /\ i = Len(ItemsOf)
  /\ start_date' = SnapStart(start_date)
  /\ end_date' = SnapEnd(end_date)
  /\ date' = start_date'
  /\ Goto("cols")
  /\ UNCHANGED <<input, cli, chart_data, i, cols, num_item_days,
                 all_items_width, resource_index, rows, marked_date_offset,
                 styles, output, io>>

\* lib.rs:285-302: one iteration of the column loop.
Column ==
  /\ pc = "cols"
  /\ DateLe(date, end_date)
  /\ LET col == ColumnOf(date, cli.max_month_width)
     IN  /\ num_item_days' = num_item_days + col.days
         /\ all_items_width' = all_items_width + col.width
         /\ cols' = Append(cols, [width |-> col.width,
                                  month_name |-> col.month_name])
  /\ date' = NextMonth(date)
  /\ Goto("cols")
  /\ UNCHANGED <<input, cli, chart_data, start_date, end_date, i,
                 resource_index, rows, marked_date_offset, styles, output,
                 io>>

\* lib.rs:285, 304-328: the column loop is over.
ColumnsDone ==
  /\ pc = "cols"
  /\ ~DateLe(date, end_date)
  /\ date' = start_date
  /\ resource_index' = 0
  /\ i' = 0
  /\ Goto("rows")
  /\ UNCHANGED <<input, cli, chart_data, start_date, end_date, cols,
                 num_item_days, all_items_width, rows, marked_date_offset,
                 styles, output, io>>

\* lib.rs:331-360: one iteration of the row loop.
Row ==
  /\ pc = "rows"
  /\ i < Len(ItemsOf)
  /\ LET item == ItemsOf[i + 1]
         at == RowDate(item, date)
         offset == OffsetOf(at, start_date, num_item_days, all_items_width,
                            cli.title_width)
         length == LengthOf(item, num_item_days, all_items_width)
     IN  /\ date' = NextRowDate(item, at)
         /\ resource_index' = RowResource(item, resource_index)
         /\ rows' = Append(rows, RowOf(item, resource_index', offset, length))
  /\ i' = i + 1
  /\ Goto("rows")
  /\ UNCHANGED <<input, cli, chart_data, start_date, end_date, cols,
                 num_item_days, all_items_width, marked_date_offset, styles,
                 output, io>>

\* lib.rs:331, 362-372: the row loop is over; place the marker.
Marker ==
  /\ pc = "rows"
  /\ i = Len(ItemsOf)
  /\ marked_date_offset' =
       IF IsSome(Unwrap(chart_data).marked_date)
       THEN Some(OffsetOf(Unwrap(Unwrap(chart_data).marked_date), start_date,
                          num_item_days, all_items_width, cli.title_width))
       ELSE None
  /\ Goto("styles")
  /\ UNCHANGED <<input, cli, chart_data, start_date, end_date, date, i, cols,
                 num_item_days, all_items_width, resource_index, rows, styles,
                 output, io>>

\* lib.rs:386-420: the resource colours, from a hue thread_rng() gives, and
\* the Ok(RenderData) that ends process_chart_data.
Styles ==
  /\ pc = "styles"
  /\ \E h \in Hues :
       styles' = ResourceColors(h, 0, Len(Unwrap(chart_data).resources))
  /\ Goto(After("layout"))
  /\ UNCHANGED <<input, cli, chart_data, start_date, end_date, date, i, cols,
                 num_item_days, all_items_width, resource_index, rows,
                 marked_date_offset, output, io>>

\* lib.rs:111-126: the RenderData process_chart_data returned.
RenderData ==
  [title |-> Unwrap(chart_data).title,
   title_width |-> cli.title_width,
   max_month_width |-> cli.max_month_width,
   marked_date_offset |-> marked_date_offset,
   styles |-> styles,
   cols |-> cols,
   rows |-> rows,
   resources |-> Unwrap(chart_data).resources]

\* lib.rs:164, 423-653: render_chart; hypermelon::render may fail.
RenderChart ==
  /\ pc = "render"
  /\ \/ /\ output' = Some(Render(cli.add_resource_table, RenderData))
        /\ Goto(After("render"))
     \/ /\ Fail("cannot render")
        /\ UNCHANGED output
  /\ UNCHANGED <<input, cli, chart_data, locals, io>>

\* lib.rs:166, 47-52: get_output creates the output file (or takes stdout).
GetOutput ==
  /\ pc = "get_output"
  /\ \/ /\ sink_open' = TRUE
        /\ Goto(After("get_output"))
     \/ /\ Fail("cannot create the output")
        /\ UNCHANGED sink_open
  /\ UNCHANGED <<input, cli, chart_data, locals, output, written, stdout,
                 stderr, exit_code>>

\* lib.rs:166, 180-184: write_svg_file.
WriteSvgFile ==
  /\ pc = "write"
  /\ \/ /\ written' = output
        /\ Goto(After("write"))
     \/ /\ Fail("cannot write the output")
        /\ UNCHANGED written
  /\ UNCHANGED <<input, cli, chart_data, locals, output, sink_open, stdout,
                 stderr, exit_code>>

\* lib.rs:167: Ok(()).
ReturnOk ==
  /\ pc = "return_ok"
  /\ pc' = "main"
  /\ result' = "Ok"
  /\ UNCHANGED <<input, cli, chart_data, error, locals, output, io>>

\* gantt_chart.rs:20-22, 28-31: main prints an Err with error! (the
\* logger's error: eprintln of "error: {}") and exits with status 1; after
\* an Ok it returns, and the process exits with status 0.
Main ==
  /\ pc = "main"
  /\ IF result = "Err"
     THEN /\ stderr' = Append(stderr, [prefix |-> "error: ", message |-> error])
          /\ exit_code' = 1
     ELSE /\ exit_code' = 0
          /\ UNCHANGED stderr
  /\ pc' = "exited"
  /\ UNCHANGED <<input, cli, chart_data, result, error, locals, output,
                 sink_open, written, stdout>>

\* The tool is run a second time on the same document, after a first run
\* that wrote its chart.
RunAgain ==
  /\ pc = "exited"
  /\ run_no = 1
  /\ exit_code = 0
  /\ IsSome(written)
  /\ run_no' = 2
  /\ first_written' = written
  /\ pc' = "parse_args"
  /\ cli' = DefaultCli
  /\ chart_data' = None
  /\ result' = ""
  /\ error' = ""
  /\ start_date' = NaiveDateMAX
  /\ end_date' = NaiveDateMIN
  /\ date' = NaiveDateMIN
  /\ i' = 0
  /\ cols' = <<>>
  /\ num_item_days' = 0
  /\ all_items_width' = 0
  /\ resource_index' = 0
  /\ rows' = <<>>
  /\ marked_date_offset' = None
  /\ styles' = <<>>
  /\ output' = None
  /\ sink_open' = FALSE
  /\ written' = None
  /\ stdout' = <<>>
  /\ stderr' = <<>>
  /\ exit_code' = -1
  /\ UNCHANGED doc

Next ==
  \/ ParseArgs
  \/ ReadChartFile
  \/ FirstPass
  \/ Snap
  \/ Column
  \/ ColumnsDone
  \/ Row
  \/ Marker
  \/ Styles
  \/ RenderChart
  \/ GetOutput
  \/ WriteSvgFile
  \/ ReturnOk
  \/ Main
  \/ RunAgain

Spec == Init /\ [][Next]_vars

\* ------------------------------------------------------ f32 arithmetic
\* The positive f32 numbers and zero, as [m, e] for the number m * 2^e
\* with 2^23 <= m < 2^24 (or m = 0, e = 0).  The chart's numbers are far
\* from the subnormal and the infinite range and never negative.  Every
\* operation rounds to nearest, ties to even, as IEEE 754 binary32 does.
RECURSIVE Pow2(_)
Pow2(n) == IF n = 0 THEN 1 ELSE 2 * Pow2(n - 1)

F32Zero == [m |-> 0, e |-> 0]

\* The number of low bits m has beyond the first 24.
RECURSIVE ExtraBits(_)
ExtraBits(m) == IF m < Pow2(24) THEN 0 ELSE 1 + ExtraBits(m \div 2)

\* m * 2^e for an m < 2^24, with the mantissa shifted up into place.
RECURSIVE F32Normal(_, _)
F32Normal(m, e) ==
  IF m = 0 THEN F32Zero
  ELSE IF m < Pow2(23) THEN F32Normal(2 * m, e - 1)
  ELSE [m |-> m, e |-> e]

\* The f32 nearest to m * 2^e (+ something below the last bit of m when
\* sticky), ties to even, for an m >= 2^24 or an exact m.
F32Round(m, e, sticky) ==
  LET s == ExtraBits(m)
      q == m \div Pow2(s)
      r == m % Pow2(s)
      half == IF s = 0 THEN 0 ELSE Pow2(s - 1)
      up == /\ s > 0
            /\ \/ r > half
               \/ r = half /\ (sticky \/ q % 2 = 1)
      q1 == IF up THEN q + 1 ELSE q
  IN  IF q1 = Pow2(24) THEN [m |-> Pow2(23), e |-> e + s + 1]
      ELSE F32Normal(q1, e + s)

\* `n as f32` for 0 <= n < 2^24 (exact).
F32FromInt(n) == F32Normal(n, 0)

\* a * b: the 48-bit product of the mantissas in two 24-bit halves.
F32Mul(a, b) ==
  IF a.m = 0 \/ b.m = 0 THEN F32Zero
  ELSE
  LET a1 == a.m \div Pow2(12)
      a0 == a.m % Pow2(12)
      b1 == b.m \div Pow2(12)
      b0 == b.m % Pow2(12)
      mid == a1 * b0 + a0 * b1
      low25 == (mid % Pow2(12)) * Pow2(12) + a0 * b0
      low == low25 % Pow2(24)
      high == a1 * b1 + mid \div Pow2(12) + low25 \div Pow2(24)
  IN  F32Round(high * Pow2(6) + low \div Pow2(18), a.e + b.e + 18,
               low % Pow2(18) # 0)

\* The quotient bits and the remainder of r * 2^n / d, for r < d.
RECURSIVE LongDiv(_, _, _, _)
LongDiv(q, r, d, n) ==
  IF n = 0 THEN <<q, r>>
  ELSE IF 2 * r >= d THEN LongDiv(2 * q + 1, 2 * r - d, d, n - 1)
  ELSE LongDiv(2 * q, 2 * r, d, n - 1)

\* a / b, b # 0: 26 bits of quotient after the point.
F32Div(a, b) ==
  IF a.m = 0 THEN F32Zero
  ELSE
  LET qr == LongDiv(a.m \div b.m, a.m % b.m, b.m, 26)
  IN  F32Round(qr[1], a.e - b.e - 26, qr[2] # 0)

\* a + b: the smaller number shifted under the larger, three guard bits.
F32Add(a, b) ==
  IF a.m = 0 THEN b
  ELSE IF b.m = 0 THEN a
  ELSE
  LET x == IF a.e >= b.e THEN a ELSE b
      y == IF a.e >= b.e THEN b ELSE a
      d == x.e - y.e
      far == d >= 27
      ym == IF far THEN 0 ELSE (8 * y.m) \div Pow2(d)
      lost == far \/ (8 * y.m) % Pow2(d) # 0
  IN  F32Round(8 * x.m + ym, x.e - 3, lost)

\* ------------------------------------- process_chart_data in f32
\* The column loop, the row loop, the marker and the grid lines with the
\* f32 arithmetic of the code, on the charts that put a milestone on the
\* first day of each of 1 .. MaxMonths consecutive months and mark the
\* first day of the last one.
MaxMonths == 6

F32Years == {2023, 2024}

\* The first day of the k-th month after the month that begins on first.
RECURSIVE MonthsOn(_, _)
MonthsOn(first, k) ==
  IF k = 0 THEN first ELSE NextMonth(MonthsOn(first, k - 1))

F32Charts ==
  {[title |-> "P",
    marked_date |-> Some(MonthsOn(FromYmd(y, mo, 1), n - 1)),
    resources |-> Resources,
    items |-> [k \in 1..n |->
                 [title |-> "A", duration |-> None,
                  start_date |-> Some(MonthsOn(FromYmd(y, mo, 1), k - 1)),
                  resource_index |-> Some(0), open |-> None]]] :
     y \in F32Years, mo \in 1..12, n \in 1..MaxMonths}

\* lib.rs:287: max_month_width * (item_days as f32) / 31.0.
F32ColumnWidthFlat(max_month_width, item_days) == F32FromInt(max_month_width)

F32ColumnWidth(max_month_width, item_days) ==
  F32Div(F32Mul(F32FromInt(max_month_width), F32FromInt(item_days)),
         F32FromInt(WidthDivisor))

\* lib.rs:336-339, 365-368: title_width + gutter.left
\*   + ((date - start_date).num_days() as f32) / (num_item_days as f32)
\*   * all_items_width, for a date at that is not before start.
F32OffsetOf(at, start, item_days, items_width, title_width) ==
  F32Add(F32Add(F32FromInt(title_width), F32FromInt(GutterLeft)),
         F32Mul(F32Div(F32FromInt(NumDays(at, start)),
                       F32FromInt(item_days)),
                items_width))

\* lib.rs:532: rd.cols.iter().take(n).map(|col| col.width).sum::<f32>().
RECURSIVE F32SumWidths(_, _)
F32SumWidths(columns, n) ==
  IF n = 0 THEN F32Zero
  ELSE F32Add(F32SumWidths(columns, n - 1), columns[n].width)

\* lib.rs:529-533: the x of the vertical grid lines, left to right.
F32ColumnLines(rd) ==
  [k \in 1..(Len(rd.cols) + 1) |->
     F32Add(F32Add(F32FromInt(GutterLeft), F32FromInt(rd.title_width)),
            F32SumWidths(rd.cols, k - 1))]

\* lib.rs:212-276: the chart is read and the date-range loop and the snap
\* have run: the interval is the months of the first and the last item.
F32Init ==
  /\ doc = None
  /\ run_no = 1
  /\ first_written = None
  /\ pc = "f32_cols"
  /\ cli = DefaultCli
  /\ chart_data \in {Some(c) : c \in F32Charts}
  /\ result = ""
  /\ error = ""
  /\ start_date = SnapStart(Unwrap(ItemsOf[1].start_date))
  /\ end_date = SnapEnd(Unwrap(ItemsOf[Len(ItemsOf)].start_date))
  /\ date = start_date
  /\ i = 0
  /\ cols = <<>>
  /\ num_item_days = 0
  /\ all_items_width = F32Zero
  /\ resource_index = 0
  /\ rows = <<>>
  /\ marked_date_offset = None
  /\ styles = <<>>
  /\ output = None
  /\ sink_open = FALSE
  /\ written = None
  /\ stdout = <<>>
  /\ stderr = <<>>
  /\ exit_code = -1

\* lib.rs:285-302: one iteration of the column loop.
F32Column ==
  /\ pc = "f32_cols"
  /\ DateLe(date, end_date)
  /\ LET item_days == NumDaysInMonth(date.y, date.m)
         item_width == F32ColumnWidth(cli.max_month_width, item_days)
     IN  /\ num_item_days' = num_item_days + item_days
         /\ all_items_width' = F32Add(all_items_width, item_width)
         /\ cols' = Append(cols, [width |-> item_width,
                                  month_name |-> MONTH_NAMES[date.m]])
  /\ date' = NextMonth(date)
  /\ UNCHANGED <<input, pc, cli, chart_data, result, error, start_date,
                 end_date, i, resource_index, rows, marked_date_offset,
                 styles, output, io>>

\* lib.rs:285, 304: the column loop is over.
F32ColumnsDone ==
  /\ pc = "f32_cols"
  /\ ~DateLe(date, end_date)
  /\ date' = start_date
  /\ resource_index' = 0
  /\ i' = 0
  /\ pc' = "f32_rows"
  /\ UNCHANGED <<input, cli, chart_data, result, error, start_date,
                 end_date, cols, num_item_days, all_items_width, rows,
                 marked_date_offset, styles, output, io>>

\* lib.rs:331-360: one iteration of the row loop.
F32Row ==
  /\ pc = "f32_rows"
  /\ i < Len(ItemsOf)
  /\ LET item == ItemsOf[i + 1]
         at == RowDate(item, date)
         offset == F32OffsetOf(at, start_date, num_item_days,
                               all_items_width, cli.title_width)
     IN  /\ date' = NextRowDate(item, at)
         /\ resource_index' = RowResource(item, resource_index)
         /\ rows' = Append(rows, RowOf(item, resource_index', offset, None))
  /\ i' = i + 1
  /\ UNCHANGED <<input, pc, cli, chart_data, result, error, start_date,
                 end_date, cols, num_item_days, all_items_width,
                 marked_date_offset, styles, output, io>>

\* lib.rs:331, 362-372: the row loop is over; place the marker.
F32Marker ==
  /\ pc = "f32_rows"
  /\ i = Len(ItemsOf)
  /\ marked_date_offset' =
       Some(F32OffsetOf(Unwrap(Unwrap(chart_data).marked_date), start_date,
                        num_item_days, all_items_width, cli.title_width))
  /\ pc' = "f32_render"
  /\ UNCHANGED <<input, cli, chart_data, result, error, start_date,
                 end_date, date, i, cols, num_item_days, all_items_width,
                 resource_index, rows, styles, output, io>>

\* lib.rs:529-543: render_chart draws the vertical grid lines.
F32RenderColumns ==
  /\ pc = "f32_render"
  /\ output' = Some([column_lines |->
                       F32ColumnLines([cols |-> cols,
                                       title_width |-> cli.title_width])])
  /\ pc' = "f32_done"
  /\ UNCHANGED <<input, cli, chart_data, result, error, locals, io>>

F32Next ==
  \/ F32Column
  \/ F32ColumnsDone
  \/ F32Row
  \/ F32Marker
  \/ F32RenderColumns

SpecF32 == F32Init /\ [][F32Next]_vars

\* ------------------------------------------------------- properties
LayoutErrors == {ErrFirstStart, ErrFirstResource, ErrResourceRange}

\* process_chart_data has returned an Err.
LayoutFailed == result = "Err" /\ error \in LayoutErrors

\* process_chart_data has returned Ok(RenderData).
LayoutReturnedOk ==
  \/ pc \in {"render", "get_output", "write", "return_ok"}
  \/ /\ pc \in {"main", "exited"}
     /\ \/ result = "Ok" /\ stdout = <<>>
        \/ result = "Err" /\ error \in {"cannot render",
                                        "cannot create the output",
                                        "cannot write the output"}

\* The chart of the document that was read.
Doc == Unwrap(doc)

NumResources == Len(Doc.resources)

\* The checks the error list names, for the item at position k (from 1).
MissesFirstStart(k) == k = 1 /\ ~IsSome(Doc.items[k].start_date)
MissesFirstResource(k) == k = 1 /\ ~IsSome(Doc.items[k].resource_index)
ResourceOutOfRange(k) ==
  /\ IsSome(Doc.items[k].resource_index)
  /\ Unwrap(Doc.items[k].resource_index) >= NumResources

FailingItems ==
  {k \in 1..Len(Doc.items) :
     MissesFirstStart(k) \/ MissesFirstResource(k) \/ ResourceOutOfRange(k)}

FirstFailingItem == CHOOSE k \in FailingItems : \A j \in FailingItems : k <= j

ExpectedError ==
  IF MissesFirstStart(FirstFailingItem) THEN ErrFirstStart
  ELSE IF ResourceOutOfRange(FirstFailingItem) THEN ErrResourceRange
  ELSE ErrFirstResource

\* C1: process_chart_data fails exactly for the item lists in which the
\* first item has no start date, the first item has no resource index, or
\* some item's resource index is >= the number of resources; its error is
\* that of the first failing check in item order (within an item, the
\* missing start before the resource checks).
C1_FailsExactlyOnListedErrors ==
  /\ LayoutFailed => FailingItems # {} /\ error = ExpectedError
  /\ LayoutReturnedOk => FailingItems = {}
  /\ pc \in {"cols", "rows", "styles"} => FailingItems = {}

C1_Witness ==
  /\ LayoutFailed
  /\ error = ErrResourceRange
  /\ FirstFailingItem = 2

\* C2: if no item carries a resource index the layout fails (the empty
\* item list included); otherwise, when it succeeds, every row's resource
\* index is in [0, |resources|).
C2_NoResourceIndexFails ==
  LET none == \A k \in 1..Len(Doc.items) : ~IsSome(Doc.items[k].resource_index)
  IN  LayoutReturnedOk =>
        /\ ~none
        /\ \A k \in 1..Len(rows) :
              rows[k].resource_index \in 0..(NumResources - 1)

\* The left edge of the chart area, in 1/31: title_width + gutter.left.
ChartLeft == WidthDivisor * (cli.title_width + GutterLeft)

\* C3: every row lies inside the chart area: its offset is at least
\* title_width + gutter.left, and its offset plus its length (0 for a
\* milestone) is at most width - gutter.right; in days, the cursor of the
\* row pass never leaves [snapped start, snapped start + total days].
C3_RowsInsideChart ==
  /\ \A k \in 1..Len(rows) :
        LET len == IF IsSome(rows[k].length) THEN Unwrap(rows[k].length) ELSE 0
        IN  /\ rows[k].offset >= ChartLeft
            /\ rows[k].offset + len <= ChartLeft + all_items_width
            /\ IsSome(output) =>
                 rows[k].offset + len
                   <= Unwrap(output).width - WidthDivisor * GutterRight
  /\ pc = "rows" /\ i > 0 =>
        /\ 0 <= NumDays(date, start_date)
        /\ NumDays(date, start_date) <= num_item_days

\* A second item that starts before the date carried from the first one.
C3_Witness ==
  /\ Len(rows) = 2
  /\ Len(Doc.items) = 2
  /\ Doc.items[1].start_date = Some(D2)
  /\ Doc.items[1].duration = Some(10)
  /\ Doc.items[2].start_date = Some(D1)
  /\ Doc.items[2].duration = Some(10)
  /\ IsSome(output)
  /\ rows[2].offset < rows[1].offset

\* C4 as stated: every row of an item with a duration has a length > 0.
C4_EveryDurationHasPositiveLength ==
  \A k \in 1..Len(rows) :
     IsSome(Doc.items[k].duration) =>
        IsSome(rows[k].length) /\ Unwrap(rows[k].length) > 0

\* C4, amended: the row of an item with a duration d has a length, which
\* is > 0 when d > 0 and 0 when d = 0.
C4_LengthPositiveIffDurationPositive ==
  \A k \in 1..Len(rows) :
     IsSome(Doc.items[k].duration) =>
        /\ IsSome(rows[k].length)
        /\ Unwrap(Doc.items[k].duration) > 0 => Unwrap(rows[k].length) > 0
        /\ Unwrap(Doc.items[k].duration) = 0 => Unwrap(rows[k].length) = 0

C4_Witness ==
  /\ Len(rows) = 2
  /\ Doc.items[1].duration = Some(10)
  /\ Doc.items[2].duration = Some(0)
  /\ Unwrap(rows[1].length) > 0
  /\ Unwrap(rows[2].length) = 0

\* C5: one row per item, row k with the title and the open flag (false
\* when absent) of item k, in item order.
C5_OneRowPerItemInOrder ==
  /\ pc = "rows" => Len(rows) = i
  /\ pc = "styles" \/ LayoutReturnedOk => Len(rows) = Len(Doc.items)
  /\ \A k \in 1..Len(rows) :
        /\ rows[k].title = Doc.items[k].title
        /\ rows[k].open = IF IsSome(Doc.items[k].open)
                          THEN Unwrap(Doc.items[k].open) ELSE FALSE

C5_Witness ==
  /\ LayoutReturnedOk
  /\ Len(rows) = 2
  /\ rows[1].title = "C" /\ rows[1].open = FALSE
  /\ rows[2].title = "A" /\ rows[2].open = FALSE
  /\ Doc.items[2].open = None

\* Months counted from year 0: the index of a date's month.
MonthIndex(d) == d.y * 12 + d.m - 1

\* The columns of the months with indices a .. b, in order.
MonthColumns(a, b) ==
  [k \in 1..(IF b < a THEN 0 ELSE b - a + 1) |->
     LET idx == a + k - 1
     IN  [width |-> cli.max_month_width * MonthLen(idx \div 12, (idx % 12) + 1),
          month_name |-> MONTH_NAMES[(idx % 12) + 1]]]

\* C6: the columns are the consecutive months from the month of the
\* snapped start to the month of the snapped end, one per (year, month),
\* in order, January of the next year after December.  While the walk
\* runs the columns are those of the months before its cursor, which is
\* never past the month after the end: the walk terminates.
C6_ColumnsAreTheMonths ==
  /\ pc = "cols" =>
       /\ date.d = 1
       /\ MonthIndex(date) >= MonthIndex(start_date)
       /\ DateLe(start_date, end_date) =>
            MonthIndex(date) <= MonthIndex(end_date) + 1
       /\ cols = MonthColumns(MonthIndex(start_date), MonthIndex(date) - 1)
  /\ pc \in {"rows", "styles"} \/ LayoutReturnedOk =>
       cols = MonthColumns(MonthIndex(start_date), MonthIndex(end_date))

C6_Witness ==
  /\ LayoutReturnedOk
  /\ Len(cols) = 3
  /\ cols[1].month_name = "Dec"
  /\ cols[2].month_name = "Jan"
  /\ cols[3].month_name = "Feb"
  /\ start_date = FromYmd(2023, 12, 1)
  /\ end_date = FromYmd(2024, 2, 29)

\* The failures of run before get_output: reading, parsing, layout,
\* rendering.
ErrorsBeforeOutput ==
  {"cannot open the input", "cannot read the input", "malformed input",
   "cannot render"} \cup LayoutErrors

\* C7: when reading, parsing, layout or rendering fails, the output has
\* not been opened and nothing has been written; the output is opened
\* only after process_chart_data and render_chart have succeeded; and
\* every item is validated before a column or a row is produced.
C7_NoOutputBeforeSuccess ==
  /\ (result = "Err" /\ error \in ErrorsBeforeOutput) \/ stdout # <<>> =>
       ~sink_open /\ written = None
  /\ sink_open => LayoutReturnedOk /\ IsSome(output)
  /\ pc = "pass1" \/ LayoutFailed => cols = <<>> /\ rows = <<>>

C7_Witness ==
  /\ pc = "exited"
  /\ result = "Err"
  /\ error = "cannot render"
  /\ Len(rows) = 2
  /\ ~sink_open

\* run came back without a chart: with an Err, or after a command line
\* that clap rejected.
ArgsRejected == stdout # <<>>
RunFailed == result = "Err" \/ ArgsRejected

\* C8: every failure of a run, a rejected command line included, is
\* printed as "error: <message>" on the diagnostic stream and ends the
\* process with a non-zero status; status 0 means success.
C8_EveryFailureIsReported ==
  pc = "exited" =>
    /\ RunFailed =>
         /\ exit_code # 0
         /\ \E k \in 1..Len(stderr) : stderr[k].prefix = "error: "
    /\ exit_code = 0 => ~RunFailed /\ IsSome(written)

\* C9: a second run on the same chart, given the same seed (run takes
\* none: the seed is thread_rng()'s own), writes what the first one wrote.
C9_SecondRunWritesTheSame ==
  run_no = 2 /\ pc = "exited" /\ IsSome(written) => written = first_written

\* The date at which item k is placed: its start date, or the date
\* carried from item k-1 (its date plus its duration).
RECURSIVE PlacedAt(_)
PlacedAt(k) ==
  IF IsSome(Doc.items[k].start_date) THEN Unwrap(Doc.items[k].start_date)
  ELSE AddDays(PlacedAt(k - 1),
               IF IsSome(Doc.items[k - 1].duration)
               THEN Unwrap(Doc.items[k - 1].duration) ELSE 0)

\* The last day item k occupies: day s+d-1 of a task of d > 0 days that
\* starts on day s, the item's own date otherwise.
LastDayOf(k) ==
  IF IsSome(Doc.items[k].duration) /\ Unwrap(Doc.items[k].duration) > 0
  THEN AddDays(PlacedAt(k), Unwrap(Doc.items[k].duration) - 1)
  ELSE PlacedAt(k)

AllInOneMonth ==
  /\ Len(Doc.items) > 0
  /\ \A k \in 1..Len(Doc.items) :
        /\ MonthIndex(PlacedAt(k)) = MonthIndex(PlacedAt(1))
        /\ MonthIndex(LastDayOf(k)) = MonthIndex(PlacedAt(1))

\* C10: when every day the items occupy lies in one calendar month, the
\* resolved interval is that month and there is exactly one column.
C10_SingleMonthSingleColumn ==
  LayoutReturnedOk /\ AllInOneMonth =>
    /\ Len(cols) = 1
    /\ start_date = SnapStart(PlacedAt(1))
    /\ end_date = SnapEnd(PlacedAt(1))

\* The date the cursor carries on from item k: the date item k is placed
\* at plus its duration (0 for a milestone).
CarriedFrom(k) ==
  AddDays(PlacedAt(k),
          IF IsSome(Doc.items[k].duration)
          THEN Unwrap(Doc.items[k].duration) ELSE 0)

\* The x offset of a date, at max_month_width / 31 per day from the
\* snapped start.
XOfDate(d) == ChartLeft + NumDays(d, start_date) * cli.max_month_width

\* Row k is where the carry-over puts item k: at the date of the
\* recurrence, on its own resource or on the one of the row before.
RowCarriesOver(k) ==
  /\ rows[k].offset = XOfDate(PlacedAt(k))
  /\ rows[k].resource_index =
       IF IsSome(Doc.items[k].resource_index)
       THEN Unwrap(Doc.items[k].resource_index)
       ELSE rows[k - 1].resource_index

\* C11: the row of item k > 1 that omits its start date is placed at the
\* date of item k-1 plus the duration of item k-1 (0 for a milestone), the
\* row of an item that gives a start date at that date whatever the cursor
\* carries; a row that omits the resource index has the resource index of
\* the row before it, otherwise its own.  This holds of each row when the
\* row loop has appended it and of every row handed to render_chart.
\* After k items the cursor of the row loop and the cursor of the
\* date-range loop are the same date.
C11_CarryOver ==
  /\ pc = "rows" /\ i > 0 => RowCarriesOver(i)
  /\ pc = "render" => \A k \in 1..Len(rows) : RowCarriesOver(k)
  /\ pc \in {"pass1", "rows"} /\ i > 0 => date = CarriedFrom(i)

\* A first task of 10 days, then an item that omits the start date and the
\* resource index (placed ten days on), and the same chart with a second
\* item that gives an earlier start date than the cursor carries.
C11_Witness ==
  /\ Len(rows) = 2
  /\ pc = "rows"
  /\ Doc.items[1].start_date = Some(D2)
  /\ Doc.items[1].duration = Some(10)
  /\ Doc.items[1].resource_index = Some(1)
  /\ Doc.items[2].start_date = None
  /\ Doc.items[2].resource_index = None
  /\ Doc.items[2].duration = Some(10)
  /\ rows[2].offset = XOfDate(FromYmd(2024, 2, 4))
  /\ rows[2].resource_index = 1
  /\ date = FromYmd(2024, 2, 14)

\* Row k has a length exactly when item k has a duration, and the length
\* 0 when the duration is 0.
RowLengthAsDuration(k) ==
  /\ IsSome(rows[k].length) <=> IsSome(Doc.items[k].duration)
  /\ Doc.items[k].duration = Some(0) => rows[k].length = Some(0)

\* C12: a row has a length exactly when its item has a duration (of each
\* row when the row loop has appended it, and of every row handed to
\* render_chart).  The row of an item of duration 0 has the length 0 and
\* is drawn as a bar (a rect of width 0) and not as a milestone (a path),
\* and the cursor the row loop carries on from it is the date the item
\* was placed at.
C12_LengthIffDuration ==
  /\ pc = "rows" /\ i > 0 =>
        /\ RowLengthAsDuration(i)
        /\ Doc.items[i].duration = Some(0) => date = PlacedAt(i)
  /\ pc = "render" => \A k \in 1..Len(rows) : RowLengthAsDuration(k)
  /\ pc = "get_output" =>
        \A k \in 1..Len(rows) :
           /\ Unwrap(output).row_items[k].elem =
                IF IsSome(Doc.items[k].duration) THEN "rect" ELSE "path"
           /\ Doc.items[k].duration = Some(0) =>
                Unwrap(output).row_items[k].width = 0

\* A rendered chart of a bar of duration 0 followed by a milestone that
\* omits its start date: a rect of width 0 and a path, on the same date.
C12_Witness ==
  /\ IsSome(output)
  /\ Len(rows) = 2
  /\ Doc.items[1].duration = Some(0)
  /\ Doc.items[2].duration = None
  /\ Doc.items[2].start_date = None
  /\ rows[1].length = Some(0)
  /\ rows[2].length = None
  /\ rows[2].offset = rows[1].offset
  /\ Unwrap(output).row_items[1].elem = "rect"
  /\ Unwrap(output).row_items[1].width = 0
  /\ Unwrap(output).row_items[2].elem = "path"

\* The month of the chart (from 1) that a date is in.
ChartMonthOf(d) == MonthIndex(d) - MonthIndex(start_date) + 1

\* Twice the distance of an f32 from the quotient num / den, in units of
\* the f32's last bit and of den.
TwiceErrorTimes(den, a, num) ==
  LET diff == den * a.m - num * Pow2(0 - a.e)
  IN  2 * (IF diff < 0 THEN 0 - diff ELSE diff)

\* An f32 >= 128 in units of 2^-16 (exact: its last bit is >= 2^-16).
F32Fixed(a) == a.m * Pow2(a.e + 16)

\* The distance of two f32 >= 128, in units of 2^-16.
F32Distance(a, b) ==
  LET diff == F32Fixed(a) - F32Fixed(b)
  IN  IF diff < 0 THEN 0 - diff ELSE diff

====
